---- MODULE Spec2Model ----
(***************************************************************************)
(* Habit tracker: streak and lifecycle engine.                             *)
(*                                                                         *)
(* Time.  A datetime is an integer number of ticks; a day has TicksPerDay  *)
(* ticks (midnight and noon), so dt.date() is t \div TicksPerDay and a     *)
(* date is a day number.  Day number 0 is a Monday, so date.weekday() is   *)
(* d % 7.  timedelta.days of a datetime difference is the floor of the     *)
(* difference in days, as Python normalises it.                            *)
(***************************************************************************)
EXTENDS Integers, Sequences, FiniteSets, TLC

VARIABLES
    periodicity,      \* Habit.periodicity, or the periodicity argument of a call
    created_date,     \* Habit.created_date
    completions,      \* Habit.completions, in append order
    now,              \* the wall clock read by datetime.now()
    db_completions,   \* rows of the completions table, in insert order
    last,             \* the last operation: its name, argument, the log before it, its result
    habits,           \* HabitTracker.habits: the tracked habit objects by id
    db_habits         \* the habits table: its rows by id, and its AUTOINCREMENT sequence

vars == <<periodicity, created_date, completions, now, db_completions, last,
          habits, db_habits>>

-----------------------------------------------------------------------------
(* Bounds of the model *)

MaxLen == 3        \* longest completion log built from an empty log, or drawn as an input
MaxDay == 2        \* the clock of Spec runs over the days StartDay .. StartDay + MaxDay
MaxWeek == 2       \* the inputs of SpecQuery are drawn from the weeks 0 .. MaxWeek

-----------------------------------------------------------------------------
(* Calendar *)

DayParts == {0, 1}                       \* the instants of a day the model tells apart
TicksPerDay == Cardinality(DayParts)
DaysPerWeek == 7

DAILY == "Periodicity.DAILY"
WEEKLY == "Periodicity.WEEKLY"
Periodicity == {DAILY, WEEKLY}

\* datetime.date()
Date(t) == t \div TicksPerDay

\* date.weekday(): Monday is 0, Sunday is 6
Weekday(d) == d % DaysPerWeek

\* d - timedelta(days=d.weekday()): the Monday of d's week
WeekStart(d) == d - Weekday(d)

\* (a - b).days for two datetimes
DeltaDays(a, b) == (a - b) \div TicksPerDay

Max2(a, b) == IF a >= b THEN a ELSE b

\* max(self.completions)
MaxOf(s) == CHOOSE x \in {s[i] : i \in DOMAIN s} : \A i \in DOMAIN s : s[i] <= x

\* [dt.date() for dt in completions]
Dates(s) == [i \in DOMAIN s |-> Date(s[i])]

RECURSIVE InsertAsc(_, _)
InsertAsc(x, s) ==
    IF s = <<>> THEN <<x>>
    ELSE IF x < Head(s) THEN <<x>> \o s
    ELSE <<Head(s)>> \o InsertAsc(x, Tail(s))

\* sorted(xs)
RECURSIVE SortAsc(_)
SortAsc(s) == IF s = <<>> THEN <<>> ELSE InsertAsc(Head(s), SortAsc(Tail(s)))

\* sorted(xs, reverse=True)
SortDesc(s) == LET a == SortAsc(s) IN [i \in DOMAIN a |-> a[Len(a) + 1 - i]]

-----------------------------------------------------------------------------
(* analytics.calculate_current_streak *)

\* the DAILY loop over sorted_completions (most recent first), from position i
RECURSIVE DailyWalk(_, _, _, _)
DailyWalk(s, i, expected_date, streak) ==
    IF i > Len(s) THEN streak
    ELSE IF s[i] = expected_date
         THEN DailyWalk(s, i + 1, expected_date - 1, streak + 1)
    ELSE IF s[i] < expected_date
         THEN streak                                   \* gap found: break
    ELSE DailyWalk(s, i + 1, expected_date, streak)

\* the WEEKLY loop over sorted_completions (most recent first), from position i
RECURSIVE WeeklyWalk(_, _, _, _)
WeeklyWalk(s, i, expected_week_start, streak) ==
    LET week_end == expected_week_start + 6 IN
    IF i > Len(s) THEN streak
    ELSE IF expected_week_start <= s[i] /\ s[i] <= week_end
         THEN WeeklyWalk(s, i + 1, expected_week_start - DaysPerWeek, streak + 1)
    ELSE IF s[i] < expected_week_start
         THEN streak                                   \* gap found: break
    ELSE WeeklyWalk(s, i + 1, expected_week_start, streak)

\* calculate_current_streak walking the log in stored order (the sort left out)
calculate_current_streak_Unsorted(cs, p, n) ==
    IF cs = <<>> THEN 0
    ELSE LET today == Date(n)
         IN  IF p = DAILY THEN DailyWalk(Dates(cs), 1, today, 0)
             ELSE IF p = WEEKLY THEN WeeklyWalk(Dates(cs), 1, WeekStart(today), 0)
             ELSE 0

\* calculate_current_streak that treats every periodicity that is not DAILY as WEEKLY
calculate_current_streak_ElseWeekly(cs, p, n) ==
    IF cs = <<>> THEN 0
    ELSE LET sorted_completions == SortDesc(Dates(cs))
             today == Date(n)
         IN  IF p = DAILY THEN DailyWalk(sorted_completions, 1, today, 0)
             ELSE WeeklyWalk(sorted_completions, 1, WeekStart(today), 0)

\* n is the value datetime.now() returns during the call
calculate_current_streak(cs, p, n) ==
    IF cs = <<>> THEN 0
    ELSE LET sorted_completions == SortDesc(Dates(cs))
             today == Date(n)
         IN  IF p = DAILY THEN DailyWalk(sorted_completions, 1, today, 0)
             ELSE IF p = WEEKLY
                  THEN WeeklyWalk(sorted_completions, 1, WeekStart(today), 0)
             ELSE 0

-----------------------------------------------------------------------------
(* analytics.calculate_longest_streak *)

\* the scan of adjacent pairs from position i; step is 1 (days) or 7 (week starts)
RECURSIVE ScanRuns(_, _, _, _, _)
ScanRuns(keys, step, i, longest, current) ==
    IF i > Len(keys) THEN Max2(longest, current)
    ELSE IF keys[i] - keys[i - 1] = step
         THEN ScanRuns(keys, step, i + 1, longest, current + 1)
    ELSE ScanRuns(keys, step, i + 1, Max2(longest, current), 1)

\* calculate_longest_streak without its test for the empty log
calculate_longest_streak_NoEmptyTest(cs, p) ==
    LET sorted == SortAsc(Dates(cs))
        weeks == [i \in DOMAIN sorted |-> WeekStart(sorted[i])]
    IN  IF p = DAILY THEN ScanRuns(sorted, 1, 2, 1, 1)
        ELSE IF p = WEEKLY THEN ScanRuns(weeks, DaysPerWeek, 2, 1, 1)
        ELSE 0

calculate_longest_streak(cs, p) ==
    IF cs = <<>> THEN 0
    ELSE LET sorted == SortAsc(Dates(cs))
             weeks == [i \in DOMAIN sorted |-> WeekStart(sorted[i])]
         IN  IF p = DAILY THEN ScanRuns(sorted, 1, 2, 1, 1)
             ELSE IF p = WEEKLY THEN ScanRuns(weeks, DaysPerWeek, 2, 1, 1)
             ELSE 0

-----------------------------------------------------------------------------
(* Habit *)

\* the Python values passed as a periodicity argument besides the members of
\* Periodicity: str values and None.  A str is never equal to a member.
PyStrings == {"daily", "weekly", "invalid"}
PyNone == "None"
PeriodicityArgs == Periodicity \cup PyStrings \cup {PyNone}

\* Periodicity(v): <<the member whose value is v>>, or <<>> when it raises ValueError
PeriodicityOf(v) ==
    IF v = "daily" THEN <<DAILY>> ELSE IF v = "weekly" THEN <<WEEKLY>> ELSE <<>>

\* Habit.__init__ without the test that a value that is not a str is a member
init_periodicity_NoTypeTest(arg) ==
    IF arg \in PyStrings THEN PeriodicityOf(arg) ELSE <<arg>>

\* Habit.__init__: <<self.periodicity>>, or <<>> when the constructor raises ValueError
init_periodicity(arg) ==
    IF arg \in PyStrings THEN PeriodicityOf(arg)
    ELSE IF arg \notin Periodicity THEN <<>>
    ELSE <<arg>>

\* mark_completed that records nothing
mark_completed_Dropped(cs, timestamp) == cs

\* Habit.mark_completed: the log after the call (the timestamp is appended)
mark_completed(cs, timestamp) == Append(cs, timestamp)

\* the DAILY loop of get_current_streak over the ascending dates, from index idx down
RECURSIVE HabitDailyWalk(_, _, _, _)
HabitDailyWalk(c, idx, day, streak) ==
    IF idx >= 1 /\ c[idx] = day
    THEN HabitDailyWalk(c, idx - 1, day - 1, streak + 1)
    ELSE streak

\* the WEEKLY loop of get_current_streak over the ascending dates, from index idx down
RECURSIVE HabitWeeklyWalk(_, _, _, _, _)
HabitWeeklyWalk(c, idx, week_start, today, streak) ==
    IF idx >= 1 /\ c[idx] >= week_start /\ c[idx] <= today
    THEN LET prev_start == week_start - DaysPerWeek
             prev_end == prev_start + 6
             found == {j \in 1..idx : c[j] >= prev_start /\ c[j] <= prev_end}
         IN  IF found = {} THEN streak + 1
             ELSE HabitWeeklyWalk(c, CHOOSE j \in found : \A k \in found : k <= j,
                                  prev_start, prev_end, streak + 1)
    ELSE streak

get_current_streak(cs, p, n) ==
    IF cs = <<>> THEN 0
    ELSE LET c == SortAsc(Dates(cs))
             today == Date(n)
         IN  IF p = DAILY THEN HabitDailyWalk(c, Len(c), today, 0)
             ELSE IF p = WEEKLY
                  THEN HabitWeeklyWalk(c, Len(c), WeekStart(today), today, 0)
             ELSE 0

\* the scan of adjacent pairs in get_longest_streak, from position i
RECURSIVE HabitScanRuns(_, _, _, _, _)
HabitScanRuns(keys, step, i, longest, current) ==
    IF i > Len(keys) THEN Max2(longest, current)
    ELSE IF keys[i] - keys[i - 1] = step
         THEN HabitScanRuns(keys, step, i + 1, longest, current + 1)
    ELSE HabitScanRuns(keys, step, i + 1, Max2(longest, current), 1)

\* get_longest_streak scanning the dates in stored order (the sort left out)
get_longest_streak_Unsorted(cs, p) ==
    IF cs = <<>> THEN 0
    ELSE LET c == Dates(cs)
             weeks == [i \in DOMAIN c |-> WeekStart(c[i])]
         IN  IF p = DAILY THEN HabitScanRuns(c, 1, 2, 1, 1)
             ELSE IF p = WEEKLY THEN HabitScanRuns(weeks, DaysPerWeek, 2, 1, 1)
             ELSE 0

get_longest_streak(cs, p) ==
    IF cs = <<>> THEN 0
    ELSE LET c == SortAsc(Dates(cs))
             weeks == [i \in DOMAIN c |-> WeekStart(c[i])]
         IN  IF p = DAILY THEN HabitScanRuns(c, 1, 2, 1, 1)
             ELSE IF p = WEEKLY THEN HabitScanRuns(weeks, DaysPerWeek, 2, 1, 1)
             ELSE 0

\* is_due comparing a weekly habit's last completion with today instead of the week start
is_due_SameDay(cs, p, n) ==
    IF cs = <<>> THEN TRUE
    ELSE LET last_completion == MaxOf(cs) IN
         IF p = DAILY THEN Date(last_completion) < Date(n)
         ELSE IF p = WEEKLY THEN Date(last_completion) < Date(n)
         ELSE FALSE

\* is_due that finds a habit with an empty log not due
is_due_EmptyNotDue(cs, p, n) ==
    IF cs = <<>> THEN FALSE
    ELSE LET last_completion == MaxOf(cs) IN
         IF p = DAILY THEN Date(last_completion) < Date(n)
         ELSE IF p = WEEKLY
              THEN LET start_of_week == Date(n) - Weekday(Date(n))
                   IN  Date(last_completion) < start_of_week
         ELSE FALSE

is_due(cs, p, n) ==
    IF cs = <<>> THEN TRUE
    ELSE LET last_completion == MaxOf(cs) IN
         IF p = DAILY THEN Date(last_completion) < Date(n)
         ELSE IF p = WEEKLY
              THEN LET start_of_week == Date(n) - Weekday(Date(n))
                   IN  Date(last_completion) < start_of_week
         ELSE FALSE

\* is_broken with the Daily threshold off by one (a completion yesterday is too old)
is_broken_OffByOne(cs, p, cd, n) ==
    IF cs = <<>>
    THEN IF p = DAILY THEN Date(n) - Date(cd) > 0
         ELSE DeltaDays(n, cd) > 7
    ELSE LET last_completion == MaxOf(cs) IN
         IF p = DAILY THEN Date(n) - Date(last_completion) > 0
         ELSE IF p = WEEKLY THEN DeltaDays(n, last_completion) > 14
         ELSE FALSE

\* is_broken that never finds a habit with an empty log broken
is_broken_EmptyNever(cs, p, cd, n) ==
    IF cs = <<>> THEN FALSE
    ELSE LET last_completion == MaxOf(cs) IN
         IF p = DAILY THEN Date(n) - Date(last_completion) > 1
         ELSE IF p = WEEKLY THEN DeltaDays(n, last_completion) > 14
         ELSE FALSE

\* p is a Periodicity member: Habit.__init__ admits nothing else
is_broken(cs, p, cd, n) ==
    IF cs = <<>>
    THEN IF p = DAILY THEN Date(n) - Date(cd) > 0
         ELSE DeltaDays(n, cd) > 7
    ELSE LET last_completion == MaxOf(cs) IN
         IF p = DAILY THEN Date(n) - Date(last_completion) > 1
         ELSE IF p = WEEKLY THEN DeltaDays(n, last_completion) > 14
         ELSE FALSE

-----------------------------------------------------------------------------
(* DataManager: the habits table and the completions table *)

\* Periodicity.value, the text stored in the periodicity column
periodicity_value(p) == IF p = DAILY THEN "daily" ELSE "weekly"

\* datetime.isoformat(): the text of a datetime, zero-padded fields with the most
\* significant first (two digits of the day number, then the time of day)
isoformat(t) == <<Date(t) \div 10, Date(t) % 10, t % TicksPerDay>>

\* datetime.fromisoformat(): the datetime of a text
fromisoformat(x) == (x[1] * 10 + x[2]) * TicksPerDay + x[3]

\* SQLite's comparison of two TEXT values, a < b: character by character
RECURSIVE TextLess(_, _)
TextLess(a, b) ==
    IF a = <<>> THEN b # <<>>
    ELSE IF b = <<>> THEN FALSE
    ELSE IF Head(a) # Head(b) THEN Head(a) < Head(b)
    ELSE TextLess(Tail(a), Tail(b))

\* ORDER BY completion_timestamp ASC over a column of TEXT values
RECURSIVE InsertByText(_, _)
InsertByText(x, s) ==
    IF s = <<>> THEN <<x>>
    ELSE IF TextLess(Head(s), x) THEN <<Head(s)>> \o InsertByText(x, Tail(s))
    ELSE <<x>> \o s

RECURSIVE OrderByText(_)
OrderByText(s) == IF s = <<>> THEN <<>> ELSE InsertByText(Head(s), OrderByText(Tail(s)))

\* a new database without the fixture rows
EmptyHabitsTable == [rows |-> <<>>, seq |-> 0]

\* DataManager.insert_habit: the table after the insert; the id returned is its seq
insert_habit(tbl, habit) ==
    LET habit_id == tbl.seq + 1
        row == [periodicity |-> periodicity_value(habit.periodicity),
                created_date |-> isoformat(habit.created_date)]
    IN  [rows |-> [i \in DOMAIN tbl.rows \cup {habit_id} |->
                      IF i = habit_id THEN row ELSE tbl.rows[i]],
         seq |-> habit_id]

\* DataManager.insert_completion that writes no row
insert_completion_Dropped(rows, habit_id, timestamp) == rows

\* DataManager.insert_completion: the table after the insert
insert_completion(rows, habit_id, timestamp) ==
    Append(rows, [habit_id |-> habit_id, completion_timestamp |-> isoformat(timestamp)])

\* DataManager.load_completions without its ORDER BY: the rows in insert order
load_completions_InsertOrder(rows, habit_id) ==
    LET sel == SelectSeq(rows, LAMBDA r : r.habit_id = habit_id)
    IN  [i \in DOMAIN sel |-> fromisoformat(sel[i].completion_timestamp)]

\* DataManager.load_completions: the list returned
load_completions(rows, habit_id) ==
    LET sel == SelectSeq(rows, LAMBDA r : r.habit_id = habit_id)
        ord == OrderByText([i \in DOMAIN sel |-> sel[i].completion_timestamp])
    IN  [i \in DOMAIN ord |-> fromisoformat(ord[i])]

\* DataManager.delete_habit that deletes every completion row
delete_habit_AllCompletions(tbl, rows, habit_id) ==
    IF habit_id \notin DOMAIN tbl.rows
    THEN [ret |-> FALSE, habits |-> tbl, completions |-> rows]
    ELSE [ret |-> TRUE,
          habits |-> [tbl EXCEPT !.rows = [i \in DOMAIN tbl.rows \ {habit_id} |-> tbl.rows[i]]],
          completions |-> <<>>]

\* DataManager.delete_habit: the value returned and the two tables after it
delete_habit(tbl, rows, habit_id) ==
    IF habit_id \notin DOMAIN tbl.rows
    THEN [ret |-> FALSE, habits |-> tbl, completions |-> rows]
    ELSE [ret |-> TRUE,
          habits |-> [tbl EXCEPT !.rows = [i \in DOMAIN tbl.rows \ {habit_id} |-> tbl.rows[i]]],
          completions |-> SelectSeq(rows, LAMBDA r : r.habit_id # habit_id)]

-----------------------------------------------------------------------------
(* The state machine: one habit tracked by a HabitTracker, and the clock *)

HabitId == 1                             \* the id insert_habit gives the first habit
Ids == {HabitId, HabitId + 1}            \* a tracked id and an id that is not tracked

StartDay == DaysPerWeek - 1              \* the Sunday of week 0
StartTime == StartDay * TicksPerDay
EndTime == (StartDay + MaxDay + 1) * TicksPerDay - 1
Times == StartTime..EndTime

\* created_date: datetime.now() at construction, or a date passed in (a week earlier)
CreatedDates == {StartTime, StartTime - DaysPerWeek * TicksPerDay}

\* ret is <<>> for None and <<v>> for the value v; raised names the exception the
\* call ended with, "" when it returned
Op(name, arg, pre, ret) ==
    [op |-> name, arg |-> arg, pre |-> pre, ret |-> ret, raised |-> ""]

Init ==
    /\ periodicity \in Periodicity
    /\ created_date \in CreatedDates
    /\ completions = <<>>
    /\ now = StartTime
    /\ db_completions = <<>>
    /\ last = Op("init", 0, <<>>, <<>>)
    /\ habits = <<>>
    /\ db_habits = EmptyHabitsTable

\* Habit.mark_completed(timestamp) called on the habit object
MarkCompleted(t) ==
    /\ Len(completions) < MaxLen
    /\ completions' = mark_completed(completions, t)
    /\ last' = Op("mark_completed", t, completions, <<>>)
    /\ UNCHANGED <<periodicity, created_date, now, db_completions, habits, db_habits>>

\* HabitTracker.complete_habit(habit_id)
CompleteHabit(habit_id) ==
    IF habit_id # HabitId
    THEN /\ last' = Op("complete_habit", habit_id, completions, <<>>)
         /\ UNCHANGED <<periodicity, created_date, completions, now, db_completions,
                        habits, db_habits>>
    ELSE /\ Len(completions) < MaxLen
         /\ completions' = mark_completed(completions, now)
         /\ db_completions' = insert_completion(db_completions, habit_id, now)
         /\ last' = Op("complete_habit", habit_id, completions,
                       <<get_current_streak(completions', periodicity, now)>>)
         /\ UNCHANGED <<periodicity, created_date, now, habits, db_habits>>

\* time passes
Tick ==
    /\ now < EndTime
    /\ now' = now + 1
    /\ last' = Op("tick", 0, completions, <<>>)
    /\ UNCHANGED <<periodicity, created_date, completions, db_completions,
                   habits, db_habits>>

Next ==
    \/ \E t \in Times : MarkCompleted(t)
    \/ \E habit_id \in Ids : CompleteHabit(habit_id)
    \/ Tick

Spec == Init /\ [][Next]_vars

-----------------------------------------------------------------------------
(* The same habit while time keeps advancing: completions are recorded up to EndTime, *)
(* and the clock runs on until every threshold of is_broken has passed              *)

\* the end of the third day after the fortnight that follows EndTime
LiveEnd == EndTime + (2 * DaysPerWeek + 3) * TicksPerDay

\* tracker.complete_habit(HabitId) while completions are still being recorded
LiveComplete ==
    /\ now <= EndTime
    /\ CompleteHabit(HabitId)

\* time passes
LiveTick ==
    /\ now < LiveEnd
    /\ now' = now + 1
    /\ last' = Op("tick", 0, completions, <<>>)
    /\ UNCHANGED <<periodicity, created_date, completions, db_completions,
                   habits, db_habits>>

NextLive ==
    \/ LiveComplete
    \/ LiveTick

\* the clock never stops: datetime.now() advances whatever the program does
SpecLive == Init /\ [][NextLive]_vars /\ WF_vars(LiveTick)

-----------------------------------------------------------------------------
(* The queries as functions of their inputs: a habit with any log, at any now *)

\* the Monday and the Sunday of each week
QueryDays == {w * DaysPerWeek + o : w \in 0..MaxWeek, o \in {0, DaysPerWeek - 1}}

\* Mondays at midnight, Sundays at noon
QueryTimes ==
    {d * TicksPerDay + (IF Weekday(d) = 0 THEN 0 ELSE TicksPerDay - 1) : d \in QueryDays}

\* noon of the Monday and of the Sunday of the last week
QueryNows ==
    {(MaxWeek * DaysPerWeek + o) * TicksPerDay + TicksPerDay - 1 : o \in {0, DaysPerWeek - 1}}

QueryCreated == {0, MaxWeek * DaysPerWeek * TicksPerDay}

QueryLogs == UNION {[1..n -> QueryTimes] : n \in 0..MaxLen}

InitQuery ==
    /\ periodicity \in Periodicity
    /\ created_date \in QueryCreated
    /\ completions \in QueryLogs
    /\ now \in QueryNows
    /\ db_completions = <<>>
    /\ last = Op("init", 0, <<>>, <<>>)
    /\ habits = <<>>
    /\ db_habits = EmptyHabitsTable

\* a query that sorts the habit's list in place
Query_SortsLog(name, value) ==
    /\ last.op = "init"
    /\ completions' = SortAsc(completions)
    /\ last' = Op(name, 0, completions, <<value>>)
    /\ UNCHANGED <<periodicity, created_date, now, db_completions, habits, db_habits>>

\* a query called on the habit drawn: it reads the habit and returns a value
Query(name, value) ==
    /\ last.op = "init"
    /\ last' = Op(name, 0, completions, <<value>>)
    /\ UNCHANGED <<periodicity, created_date, completions, now, db_completions,
                   habits, db_habits>>

CalculateCurrentStreak ==
    Query("calculate_current_streak", calculate_current_streak(completions, periodicity, now))

CalculateLongestStreak ==
    Query("calculate_longest_streak", calculate_longest_streak(completions, periodicity))

GetCurrentStreak ==
    Query("get_current_streak", get_current_streak(completions, periodicity, now))

GetLongestStreak ==
    Query("get_longest_streak", get_longest_streak(completions, periodicity))

IsDue == Query("is_due", is_due(completions, periodicity, now))

IsBroken == Query("is_broken", is_broken(completions, periodicity, created_date, now))

\* Habit.mark_completed(timestamp) on the habit drawn
MarkOnce(t) ==
    /\ last.op = "init"
    /\ completions' = mark_completed(completions, t)
    /\ last' = Op("mark_completed", t, completions, <<>>)
    /\ UNCHANGED <<periodicity, created_date, now, db_completions, habits, db_habits>>

NextQuery ==
    \/ CalculateCurrentStreak
    \/ CalculateLongestStreak
    \/ GetCurrentStreak
    \/ GetLongestStreak
    \/ IsDue
    \/ IsBroken
    \/ \E t \in QueryTimes \cup QueryNows : MarkOnce(t)

SpecQuery == InitQuery /\ [][NextQuery]_vars

-----------------------------------------------------------------------------
(* The calls with a periodicity argument of any kind *)

InitArg ==
    /\ periodicity \in PeriodicityArgs
    /\ created_date = 0
    /\ completions \in QueryLogs
    /\ now \in QueryNows
    /\ db_completions = <<>>
    /\ last = Op("init", 0, <<>>, <<>>)
    /\ habits = <<>>
    /\ db_habits = EmptyHabitsTable

\* Habit(name, description, periodicity): ret is <<self.periodicity>> of the new object
NewHabit ==
    /\ last.op = "init"
    /\ LET p == init_periodicity(periodicity) IN
       last' = IF p = <<>>
               THEN [Op("Habit", 0, completions, <<>>) EXCEPT !.raised = "ValueError"]
               ELSE Op("Habit", 0, completions, p)
    /\ UNCHANGED <<periodicity, created_date, completions, now, db_completions,
                   habits, db_habits>>

NextArg ==
    \/ NewHabit
    \/ CalculateCurrentStreak
    \/ CalculateLongestStreak

SpecArg == InitArg /\ [][NextArg]_vars

-----------------------------------------------------------------------------
(* HabitTracker over its database: several habits *)

\* a Habit object: id is <<>> for None and <<k>> for the id k
HabitObject(habit_id, p, cd) ==
    [id |-> habit_id, periodicity |-> p, created_date |-> cd, completions |-> <<>>]

\* analytics.get_all_habits / list(self.habits.values()), listed by ascending id
RECURSIVE ListOf(_, _)
ListOf(hs, ids) ==
    IF ids = {} THEN <<>>
    ELSE LET i == CHOOSE x \in ids : \A y \in ids : x <= y
         IN  <<hs[i]>> \o ListOf(hs, ids \ {i})

get_all_habits(hs) == ListOf(hs, DOMAIN hs)

\* analytics.get_habits_by_periodicity(habits, periodicity)
get_habits_by_periodicity(hs, p) == SelectSeq(hs, LAMBDA habit : habit.periodicity = p)

\* HabitTracker.get_habits_by_periodicity(periodicity), periodicity a member
tracker_get_habits_by_periodicity(hs, p) ==
    get_habits_by_periodicity(get_all_habits(hs), periodicity_value(p))

\* HabitTracker.add_habit: the dictionary and the habits table after the call
add_habit(hs, tbl, habit) ==
    LET tbl2 == IF habit.id = <<>> THEN insert_habit(tbl, habit) ELSE tbl
        k == IF habit.id = <<>> THEN tbl2.seq ELSE habit.id[1]
        obj == [habit EXCEPT !.id = <<k>>]
    IN  [habits |-> [i \in DOMAIN hs \cup {k} |-> IF i = k THEN obj ELSE hs[i]],
         db_habits |-> tbl2]

\* HabitTracker.remove_habit: the value returned, the dictionary and the tables after it
remove_habit(hs, tbl, rows, habit_id) ==
    IF habit_id \notin DOMAIN hs
    THEN [ret |-> FALSE, habits |-> hs, db_habits |-> tbl, db_completions |-> rows]
    ELSE LET d == delete_habit(tbl, rows, habit_id)
         IN  [ret |-> TRUE,
              habits |-> [i \in DOMAIN hs \ {habit_id} |-> hs[i]],
              db_habits |-> d.habits,
              db_completions |-> d.completions]

\* the clock of the tracker: noon of day 9 and midnight of day 10
TrackerStart == 9 * TicksPerDay + 1
TrackerTimes == {TrackerStart, TrackerStart + 1}

\* the most completion rows, and the longest log of a tracked habit
MaxRows == MaxLen - 1

\* the timestamps handed to the DataManager: those, and noon of day 10
DataTimes == TrackerTimes \cup {TrackerStart + TicksPerDay}

InitTracker ==
    /\ periodicity = DAILY
    /\ created_date = TrackerStart
    /\ completions = <<>>
    /\ now = TrackerStart
    /\ db_completions = <<>>
    /\ last = Op("init", 0, <<>>, <<>>)
    /\ habits = <<>>
    /\ db_habits = EmptyHabitsTable

\* tracker.add_habit(Habit(..., p, created_date=TrackerStart, habit_id=habit_id))
AddHabit(habit_id, p) ==
    /\ habit_id = <<>> => db_habits.seq + 1 \in Ids
    /\ LET r == add_habit(habits, db_habits, HabitObject(habit_id, p, TrackerStart)) IN
       /\ habits' = r.habits
       /\ db_habits' = r.db_habits
    /\ last' = [op |-> "add_habit", habit |-> HabitObject(habit_id, p, TrackerStart)]
    /\ UNCHANGED <<periodicity, created_date, completions, now, db_completions>>

\* tracker.remove_habit(habit_id); stored is what the completions table held for the id
RemoveHabit(habit_id) ==
    /\ LET r == remove_habit(habits, db_habits, db_completions, habit_id) IN
       /\ habits' = r.habits
       /\ db_habits' = r.db_habits
       /\ db_completions' = r.db_completions
       /\ last' = [op |-> "remove_habit", habit_id |-> habit_id,
                   stored |-> load_completions(db_completions, habit_id),
                   returned |-> r.ret]
    /\ UNCHANGED <<periodicity, created_date, completions, now>>

\* data_manager.delete_habit(habit_id)
DeleteHabit(habit_id) ==
    /\ LET d == delete_habit(db_habits, db_completions, habit_id) IN
       /\ db_habits' = d.habits
       /\ db_completions' = d.completions
       /\ last' = [op |-> "delete_habit", habit_id |-> habit_id,
                   stored |-> load_completions(db_completions, habit_id),
                   returned |-> d.ret]
    /\ UNCHANGED <<periodicity, created_date, completions, now, habits>>

\* tracker.complete_habit(habit_id); streak is <<>> for None and <<n>> for n
CompleteTracked(habit_id) ==
    IF habit_id \notin DOMAIN habits
    THEN /\ last' = [op |-> "complete_habit", habit_id |-> habit_id, streak |-> <<>>]
         /\ UNCHANGED <<periodicity, created_date, completions, now, db_completions,
                        habits, db_habits>>
    ELSE /\ Len(db_completions) < MaxRows
         /\ Len(habits[habit_id].completions) < MaxRows
         /\ habits' = [habits EXCEPT ![habit_id].completions = mark_completed(@, now)]
         /\ db_completions' = insert_completion(db_completions, habit_id, now)
         /\ last' = [op |-> "complete_habit", habit_id |-> habit_id,
                     streak |-> <<get_current_streak(habits'[habit_id].completions,
                                                     habits[habit_id].periodicity, now)>>]
         /\ UNCHANGED <<periodicity, created_date, completions, now, db_habits>>

\* data_manager.insert_completion(habit_id, timestamp)
InsertCompletion(habit_id, timestamp) ==
    /\ Len(db_completions) < MaxLen
    /\ db_completions' = insert_completion(db_completions, habit_id, timestamp)
    /\ last' = [op |-> "insert_completion", habit_id |-> habit_id, timestamp |-> timestamp]
    /\ UNCHANGED <<periodicity, created_date, completions, now, habits, db_habits>>

\* data_manager.load_completions(habit_id)
LoadCompletions(habit_id) ==
    /\ last' = [op |-> "load_completions", habit_id |-> habit_id,
                loaded |-> load_completions(db_completions, habit_id)]
    /\ UNCHANGED <<periodicity, created_date, completions, now, db_completions,
                   habits, db_habits>>

\* tracker.get_habits_by_periodicity(p)
TrackerGetHabitsByPeriodicity(p) ==
    /\ last' = [op |-> "tracker.get_habits_by_periodicity", periodicity |-> p,
                found |-> tracker_get_habits_by_periodicity(habits, p)]
    /\ UNCHANGED <<periodicity, created_date, completions, now, db_completions,
                   habits, db_habits>>

\* analytics.get_habits_by_periodicity(tracker.get_all_habits(), arg)
GetHabitsByPeriodicity(arg) ==
    /\ last' = [op |-> "get_habits_by_periodicity", periodicity |-> arg,
                found |-> get_habits_by_periodicity(get_all_habits(habits), arg)]
    /\ UNCHANGED <<periodicity, created_date, completions, now, db_completions,
                   habits, db_habits>>

TickTracker ==
    /\ now + 1 \in TrackerTimes
    /\ now' = now + 1
    /\ last' = [op |-> "tick"]
    /\ UNCHANGED <<periodicity, created_date, completions, db_completions,
                   habits, db_habits>>

\* data_manager.insert_habit(Habit(..., p, created_date=TrackerStart))
InsertHabit(p) ==
    /\ db_habits.seq + 1 \in Ids
    /\ db_habits' = insert_habit(db_habits, HabitObject(<<>>, p, TrackerStart))
    /\ last' = [op |-> "insert_habit", habit_id |-> db_habits'.seq]
    /\ UNCHANGED <<periodicity, created_date, completions, now, db_completions, habits>>

NextTracker ==
    \/ \E habit_id \in {<<>>} \cup {<<k>> : k \in Ids}, p \in Periodicity : AddHabit(habit_id, p)
    \/ \E habit_id \in Ids : RemoveHabit(habit_id)
    \/ \E habit_id \in Ids : DeleteHabit(habit_id)
    \/ \E habit_id \in Ids : CompleteTracked(habit_id)
    \/ \E p \in Periodicity : TrackerGetHabitsByPeriodicity(p)
    \/ \E arg \in PeriodicityArgs : GetHabitsByPeriodicity(arg)
    \/ TickTracker

SpecTracker == InitTracker /\ [][NextTracker]_vars

\* the tracker used through add_habit, complete_habit and remove_habit alone
NextApi ==
    \/ \E habit_id \in {<<>>} \cup {<<k>> : k \in Ids}, p \in Periodicity : AddHabit(habit_id, p)
    \/ \E habit_id \in Ids : CompleteTracked(habit_id)
    \/ \E habit_id \in Ids : RemoveHabit(habit_id)
    \/ TickTracker

SpecApi == InitTracker /\ [][NextApi]_vars

\* the DataManager used on its own, as its tests use it
NextData ==
    \/ \E p \in Periodicity : InsertHabit(p)
    \/ \E habit_id \in Ids, timestamp \in DataTimes : InsertCompletion(habit_id, timestamp)
    \/ \E habit_id \in Ids : LoadCompletions(habit_id)
    \/ \E habit_id \in Ids : DeleteHabit(habit_id)

SpecData == InitTracker /\ [][NextData]_vars

-----------------------------------------------------------------------------
(* A DataManager constructed on a new database file, and the restarts after it *)

\* fixtures.test_data: the day offsets and weekdays of the sample completions
read_completion_days ==
    <<0, 1, 2, 4, 5, 7, 8, 9, 11, 12, 13, 15, 16, 17, 19, 20, 22, 23, 24, 26, 27>>
vitamins_completion_days == [i \in 1..25 |-> i + 2]            \* range(3, 28)
vacuum_completion_days == <<0, 3, 6, 10, 14, 17, 21, 24, 27>>
weekly_days == <<4, 1, 6, 2>>
call_weeks == <<0, 1, 3>>
call_days == <<6, 3, 1>>

\* today - timedelta(days=day) for each day of a list
DaysBefore(today, days) == [i \in DOMAIN days |-> today - days[i] * TicksPerDay]

\* the given weekday of the week that lies the given number of weeks before today
WeekdayOfWeek(today, week, day) ==
    LET week_date == today - week * DaysPerWeek * TicksPerDay
        monday == week_date - Weekday(Date(week_date)) * TicksPerDay
    IN  monday + day * TicksPerDay

\* fixtures.test_data.create_predefined_habits() called at the instant today
create_predefined_habits(today) ==
    LET habit(p, cs) == [HabitObject(<<>>, p, today) EXCEPT !.completions = cs]
    IN  << habit(DAILY, DaysBefore(today, read_completion_days)),
           habit(DAILY, [i \in DOMAIN weekly_days |->
                            WeekdayOfWeek(today, i - 1, weekly_days[i])]),
           habit(DAILY, DaysBefore(today, vitamins_completion_days)),
           habit(WEEKLY, [i \in DOMAIN call_weeks |->
                            WeekdayOfWeek(today, call_weeks[i], call_days[i])]),
           habit(WEEKLY, DaysBefore(today, vacuum_completion_days)) >>

\* the number of habits of the fixture
PredefinedHabits == Len(create_predefined_habits(0))

\* for completion_time in habit.completions: self.insert_completion(habit_id, completion_time)
RECURSIVE InsertCompletions(_, _, _)
InsertCompletions(rows, habit_id, cs) ==
    IF cs = <<>> THEN rows
    ELSE InsertCompletions(insert_completion(rows, habit_id, Head(cs)), habit_id, Tail(cs))

\* for habit in initial_habits: insert the habit, then its completions
RECURSIVE InsertInitialHabits(_, _)
InsertInitialHabits(db, hs) ==
    IF hs = <<>> THEN db
    ELSE LET tbl == insert_habit(db.habits, Head(hs))
         IN  InsertInitialHabits(
                 [habits |-> tbl,
                  completions |-> InsertCompletions(db.completions, tbl.seq,
                                                    Head(hs).completions)],
                 Tail(hs))

\* DataManager._load_initial_test_data: the tables after it; importable tells whether
\* `from fixtures.test_data import create_predefined_habits` succeeds
load_initial_test_data(db, importable, today) ==
    IF importable THEN InsertInitialHabits(db, create_predefined_habits(today)) ELSE db

\* DataManager._create_database on a file without a habits table: the tables after it
create_database(importable, today) ==
    load_initial_test_data([habits |-> EmptyHabitsTable, completions |-> <<>>],
                           importable, today)

\* ORDER BY created_date DESC over the habit rows; rows of equal text stay in rowid order
RECURSIVE InsertByCreatedDesc(_, _)
InsertByCreatedDesc(x, s) ==
    IF s = <<>> THEN <<x>>
    ELSE IF TextLess(Head(s).created_date, x.created_date) THEN <<x>> \o s
    ELSE <<Head(s)>> \o InsertByCreatedDesc(x, Tail(s))

RECURSIVE OrderByCreatedDesc(_, _)
OrderByCreatedDesc(l, acc) ==
    IF l = <<>> THEN acc ELSE OrderByCreatedDesc(Tail(l), InsertByCreatedDesc(Head(l), acc))

\* DataManager.load_habits: the list of dictionaries returned
load_habits(tbl) ==
    LET dicts == [k \in DOMAIN tbl.rows |->
                     [id |-> k, periodicity |-> tbl.rows[k].periodicity,
                      created_date |-> tbl.rows[k].created_date]]
    IN  OrderByCreatedDesc(ListOf(dicts, DOMAIN dicts), <<>>)

\* the parameters of Habit.__init__ and the keywords _load_habits passes to it
HabitInitParameters == {"name", "description", "periodicity", "created_date", "habit_id"}
LoadHabitsKeywords ==
    {"habit_id", "name", "description", "periodicity", "created_date", "completions"}

\* HabitTracker._load_habits: the exception raised ("" for none) and the dictionary built
tracker_load_habits(tbl, rows) ==
    LET records == load_habits(tbl)
        record(k) == CHOOSE r \in {records[i] : i \in DOMAIN records} : r.id = k
        habit(r) == [id |-> <<r.id>>,
                     periodicity |-> Head(PeriodicityOf(r.periodicity)),
                     created_date |-> fromisoformat(r.created_date),
                     completions |-> load_completions(rows, r.id)]
    IN  IF records = <<>> THEN [raised |-> "", habits |-> <<>>]
        ELSE IF ~(LoadHabitsKeywords \subseteq HabitInitParameters)
        THEN [raised |-> "TypeError", habits |-> <<>>]
        ELSE [raised |-> "", habits |-> [k \in DOMAIN tbl.rows |-> habit(record(k))]]

NewStart == Len(weekly_days) * DaysPerWeek * TicksPerDay
NewTimes == NewStart .. NewStart + (MaxDay + 1) * TicksPerDay - 1

\* DataManager(db_path) on a new file, at any instant of the first days of a week
InitNew ==
    /\ periodicity = DAILY
    /\ created_date = TrackerStart
    /\ completions = <<>>
    /\ now \in NewTimes
    /\ habits = <<>>
    /\ \E importable \in BOOLEAN :
          LET db == create_database(importable, now) IN
          /\ db_habits = db.habits
          /\ db_completions = db.completions
          /\ last = [op |-> "DataManager", fixtures |-> importable]

\* data_manager.load_habits()
LoadHabits ==
    /\ last' = [op |-> "load_habits", records |-> load_habits(db_habits)]
    /\ UNCHANGED <<periodicity, created_date, completions, now, db_completions,
                   habits, db_habits>>

\* data_manager.insert_habit(Habit(..., p)) for a habit created now; at most MaxRows
\* inserts after the construction
InsertNewHabit(p) ==
    /\ \E base \in {0, PredefinedHabits} : db_habits.seq - base \in 0 .. MaxRows - 1
    /\ db_habits' = insert_habit(db_habits, HabitObject(<<>>, p, now))
    /\ last' = [op |-> "insert_habit", habit_id |-> db_habits'.seq]
    /\ UNCHANGED <<periodicity, created_date, completions, now, db_completions, habits>>

\* HabitTracker(db_path) over the file as it is: the tables exist, so nothing is seeded
Restart ==
    /\ LET r == tracker_load_habits(db_habits, db_completions) IN
       /\ habits' = r.habits
       /\ last' = [op |-> "HabitTracker", raised |-> r.raised]
    /\ UNCHANGED <<periodicity, created_date, completions, now, db_completions, db_habits>>

TickNew ==
    /\ now + 1 \in NewTimes
    /\ now' = now + 1
    /\ last' = [op |-> "tick"]
    /\ UNCHANGED <<periodicity, created_date, completions, db_completions, habits, db_habits>>

NextNew ==
    \/ LoadHabits
    \/ \E p \in Periodicity : InsertNewHabit(p)
    \/ \E habit_id \in Ids : DeleteHabit(habit_id)
    \/ Restart
    \/ TickNew

SpecNew == InitNew /\ [][NextNew]_vars

-----------------------------------------------------------------------------
(* The vocabulary of the claims *)

\* the period bucket of a timestamp: its calendar day, or the Monday of its week
PeriodKey(t, p) == IF p = DAILY THEN Date(t) ELSE WeekStart(Date(t))

\* the distance between adjacent period keys
PeriodStep(p) == IF p = DAILY THEN 1 ELSE DaysPerWeek

\* the distinct period keys of a log
Keys(cs, p) == {PeriodKey(cs[i], p) : i \in DOMAIN cs}

\* t falls in the period of a completion of cs
InSamePeriod(cs, t, p) == PeriodKey(t, p) \in Keys(cs, p)

\* the number of consecutive periods, from now's period backwards, that hold a completion
CurrentRun(cs, p, n) ==
    LET p0 == PeriodKey(n, p)
        held(j) == p0 - j * PeriodStep(p) \in Keys(cs, p)
    IN  CHOOSE k \in 0..Len(cs) : (\A j \in 0..(k - 1) : held(j)) /\ ~held(k)

\* the length of the longest run of consecutive period keys among the distinct keys
LongestRun(cs, p) ==
    LET ks == Keys(cs, p)
        run(k, n) == \A j \in 0..(n - 1) : k + j * PeriodStep(p) \in ks
        lens == {n \in 0..Len(cs) : n = 0 \/ \E k \in ks : run(k, n)}
    IN  CHOOSE n \in lens : \A m \in lens : m <= n

\* the timestamps the last operation asked to record
Attempted ==
    IF last.op = "mark_completed" THEN {last.arg}
    ELSE IF last.op = "complete_habit" /\ last.arg = HabitId THEN {now}
    ELSE {}

-----------------------------------------------------------------------------
(* Claims *)

\* C1: mark_completed(t) on a habit whose log already holds a completion in the
\* period of t fails with a duplicate-completion error and leaves the log unchanged.
C1_DuplicateRejected ==
    \A t \in Attempted :
        InSamePeriod(last.pre, t, periodicity)
            => last.raised # "" /\ completions = last.pre

\* C2: the completion log holds at most one completion per period bucket.
C2_OnePerPeriod ==
    \A i, j \in DOMAIN completions :
        i # j => PeriodKey(completions[i], periodicity) # PeriodKey(completions[j], periodicity)

\* C3: calculate_current_streak returns the number of consecutive periods, counted
\* back from the period of now, that each hold a completion; it is 0 when now's own
\* period holds none, and completions older than the first missing period never count.
C3_CurrentStreakIsRun ==
    calculate_current_streak(completions, periodicity, now)
        = CurrentRun(completions, periodicity, now)

\* a streak of 1 returned for a log that holds a completion older than the missing period
C3_Witness ==
    /\ last.op = "calculate_current_streak"
    /\ last.ret = <<1>>
    /\ \E i \in DOMAIN completions :
           PeriodKey(completions[i], periodicity)
               < PeriodKey(now, periodicity) - PeriodStep(periodicity)

\* C4: calculate_longest_streak and Habit.get_longest_streak return the length of the
\* longest run of consecutive period keys among the distinct period keys of the log.
C4_LongestIsLongestRun ==
    /\ calculate_longest_streak(completions, periodicity) = LongestRun(completions, periodicity)
    /\ get_longest_streak(completions, periodicity) = LongestRun(completions, periodicity)

\* C5: adding a second completion in the period of an existing completion changes
\* neither the longest streak nor the current streak.
C5_DedupLaw ==
    (last.op = "mark_completed" /\ InSamePeriod(last.pre, last.arg, periodicity)) =>
        /\ calculate_longest_streak(completions, periodicity)
               = calculate_longest_streak(last.pre, periodicity)
        /\ get_longest_streak(completions, periodicity)
               = get_longest_streak(last.pre, periodicity)
        /\ calculate_current_streak(completions, periodicity, now)
               = calculate_current_streak(last.pre, periodicity, now)
        /\ get_current_streak(completions, periodicity, now)
               = get_current_streak(last.pre, periodicity, now)

\* C6: the current and the longest streak of an empty log are 0, and the longest
\* streak of a log with exactly one completion is 1, for both periodicities.
C6_EmptyAndSingle ==
    /\ completions = <<>> =>
           /\ calculate_current_streak(completions, periodicity, now) = 0
           /\ get_current_streak(completions, periodicity, now) = 0
           /\ calculate_longest_streak(completions, periodicity) = 0
           /\ get_longest_streak(completions, periodicity) = 0
    /\ Len(completions) = 1 =>
           /\ calculate_longest_streak(completions, periodicity) = 1
           /\ get_longest_streak(completions, periodicity) = 1

\* the longest streak was asked of a weekly log with one completion, and was 1
C6_Witness ==
    /\ last.op = "calculate_longest_streak"
    /\ Len(completions) = 1
    /\ periodicity = WEEKLY
    /\ last.ret = <<1>>

\* C7: is_due is true exactly when the log is empty or the period key of the most
\* recent completion is strictly earlier than the period key of now.
C7_DueIffEarlierPeriod ==
    is_due(completions, periodicity, now)
        <=> \/ completions = <<>>
            \/ PeriodKey(MaxOf(completions), periodicity) < PeriodKey(now, periodicity)

\* a weekly habit completed on another day of now's week was found not due
C7_Witness ==
    /\ last.op = "is_due"
    /\ last.ret = <<FALSE>>
    /\ periodicity = WEEKLY
    /\ completions # <<>>
    /\ Date(MaxOf(completions)) < Date(now)

\* C8: immediately after mark_completed at the current time, the habit is neither
\* due nor broken.
C8_NotDueNotBrokenAfterMark ==
    now \in Attempted =>
        /\ ~is_due(completions, periodicity, now)
        /\ ~is_broken(completions, periodicity, created_date, now)

\* a habit that was due and broken was completed through complete_habit
C8_Witness ==
    /\ last.op = "complete_habit"
    /\ last.arg = HabitId
    /\ completions = Append(last.pre, now)
    /\ is_due(last.pre, periodicity, now)
    /\ is_broken(last.pre, periodicity, created_date, now)

\* C9: a Daily habit with a non-empty log is not broken when its most recent
\* completion was on today's or yesterday's date, and is broken when more than one
\* day separates that date from today's.
C9_DailyBroken ==
    (periodicity = DAILY /\ completions # <<>>) =>
        LET gap == Date(now) - Date(MaxOf(completions)) IN
        /\ gap \in {0, 1} => ~is_broken(completions, periodicity, created_date, now)
        /\ gap > 1 => is_broken(completions, periodicity, created_date, now)

\* a Daily habit last completed yesterday was found not broken
C9_Witness ==
    /\ last.op = "is_broken"
    /\ last.ret = <<FALSE>>
    /\ periodicity = DAILY
    /\ completions # <<>>
    /\ Date(now) - Date(MaxOf(completions)) = 1

\* C10: a Weekly habit with a non-empty log is not broken while now is within 14 days
\* of the most recent completion and is broken once more than 14 days have elapsed
\* since it, time of day included.
C10_WeeklyBroken ==
    (periodicity = WEEKLY /\ completions # <<>>) =>
        LET elapsed == now - MaxOf(completions) IN
        /\ elapsed <= 14 * TicksPerDay
               => ~is_broken(completions, periodicity, created_date, now)
        /\ elapsed > 14 * TicksPerDay
               => is_broken(completions, periodicity, created_date, now)

\* C11: a habit with an empty log is broken exactly when more than one full period
\* (1 day for Daily, 7 days for Weekly) has elapsed between created_date and now.
C11_EmptyLogBroken ==
    completions = <<>> =>
        (is_broken(completions, periodicity, created_date, now)
            <=> now - created_date > PeriodStep(periodicity) * TicksPerDay)

\* t is s with x appended
IsAppendOf(t, s, x) == t = Append(s, x)

\* C19: the completion log is append-only: mark_completed and complete_habit on the
\* tracked habit add exactly one completion and keep every earlier one (complete_habit
\* also adds one database row that reads back as the same timestamp); complete_habit
\* for an id that is not tracked returns None and changes neither memory nor database.
C19_AppendOnly ==
    [][/\ \E n \in 0..1 : SubSeq(completions', 1, Len(completions') - n) = completions
       /\ last'.op = "mark_completed" =>
              /\ IsAppendOf(completions', completions, last'.arg)
              /\ db_completions' = db_completions
       /\ (last'.op = "complete_habit" /\ last'.arg = HabitId) =>
              /\ IsAppendOf(completions', completions, now)
              /\ Len(db_completions') = Len(db_completions) + 1
              /\ SubSeq(db_completions', 1, Len(db_completions)) = db_completions
              /\ load_completions(<<db_completions'[Len(db_completions')]>>, HabitId) = <<now>>
       /\ (last'.op = "complete_habit" /\ last'.arg # HabitId) =>
              /\ last'.ret = <<>>
              /\ completions' = completions
              /\ db_completions' = db_completions]_vars

\* complete_habit on the tracked habit, whose log already held a completion
C19_Witness ==
    /\ last.op = "complete_habit"
    /\ last.arg = HabitId
    /\ last.pre # <<>>
    /\ completions = Append(last.pre, now)
    /\ Len(db_completions) > 1
    /\ db_completions[Len(db_completions)].completion_timestamp = isoformat(now)

\* the value of the query called name on the given log, periodicity, created_date and now
QueryValue(name, cs, p, cd, n) ==
    CASE name = "calculate_current_streak" -> calculate_current_streak(cs, p, n)
      [] name = "calculate_longest_streak" -> calculate_longest_streak(cs, p)
      [] name = "get_current_streak" -> get_current_streak(cs, p, n)
      [] name = "get_longest_streak" -> get_longest_streak(cs, p)
      [] name = "is_due" -> is_due(cs, p, n)
      [] name = "is_broken" -> is_broken(cs, p, cd, n)

QueryNames ==
    {"calculate_current_streak", "calculate_longest_streak", "get_current_streak",
     "get_longest_streak", "is_due", "is_broken"}

\* C16: evaluating a query leaves the completion log (contents and order), created_date
\* and periodicity unchanged, and evaluating it again on what it left returns the
\* same result.
C16_QueriesPure ==
    [][last'.op \in QueryNames =>
           /\ completions' = completions
           /\ created_date' = created_date
           /\ periodicity' = periodicity
           /\ last'.ret = <<QueryValue(last'.op, completions', periodicity',
                                       created_date', now')>>]_vars

\* the longest streak was computed from a log that is not in chronological order
C16_Witness ==
    /\ last.op = "get_longest_streak"
    /\ last.ret = <<2>>
    /\ completions # SortAsc(completions)
    /\ completions = last.pre

\* a periodicity argument that is neither a member of Periodicity nor the value of one
Unrecognised(arg) == arg \notin Periodicity /\ PeriodicityOf(arg) = <<>>

StreakCalls == {"calculate_current_streak", "calculate_longest_streak"}

\* C12 as stated: a periodicity outside {Daily, Weekly} supplied to the Habit
\* constructor, calculate_current_streak or calculate_longest_streak makes the call
\* fail with an invalid-periodicity error, and no value is returned.
C12_InvalidRaises ==
    (last.op \in StreakCalls \cup {"Habit"} /\ Unrecognised(periodicity)) =>
        last.raised # "" /\ last.ret = <<>>

\* C12 amended: constructing a Habit with a periodicity that is neither a member of
\* Periodicity nor 'daily' or 'weekly' raises ValueError and yields no object, while
\* calculate_current_streak and calculate_longest_streak never raise: they return a
\* value for every periodicity argument.
C12_InvalidHandled ==
    /\ last.op = "Habit" =>
           IF Unrecognised(periodicity)
           THEN last.raised = "ValueError" /\ last.ret = <<>>
           ELSE last.raised = "" /\ last.ret \in {<<DAILY>>, <<WEEKLY>>}
    /\ last.op \in StreakCalls => last.raised = "" /\ Len(last.ret) = 1

\* the constructor was called with None and raised ValueError
C12_Witness ==
    /\ last.op = "Habit"
    /\ periodicity = PyNone
    /\ last.raised = "ValueError"

\* C13: calculate_current_streak and calculate_longest_streak return 0, without
\* raising, for a non-empty log and a periodicity that is not a recognised one.
C13_UnrecognisedGivesZero ==
    (completions # <<>> /\ Unrecognised(periodicity)) =>
        /\ calculate_current_streak(completions, periodicity, now) = 0
        /\ calculate_longest_streak(completions, periodicity) = 0
        /\ last.op \in StreakCalls => last.ret = <<0>> /\ last.raised = ""

\* the current streak of a log with a completion in now's week was asked with 'invalid'
C13_Witness ==
    /\ last.op = "calculate_current_streak"
    /\ periodicity = "invalid"
    /\ last.ret = <<0>>
    /\ InSamePeriod(completions, now, WEEKLY)

\* C14: with the periodicity given as the string 'daily' or 'weekly' the two streak
\* functions return what they return for Periodicity.DAILY or Periodicity.WEEKLY.
C14_StringTagAsMember ==
    \A v \in {"daily", "weekly"} :
        periodicity = v =>
            LET member == PeriodicityOf(v)[1] IN
            /\ calculate_current_streak(completions, v, now)
                   = calculate_current_streak(completions, member, now)
            /\ calculate_longest_streak(completions, v)
                   = calculate_longest_streak(completions, member)

\* the ids of the habits in a list
IdsOf(l) == {l[i].id[1] : i \in DOMAIN l}

\* the completion rows of a habit as stored, in insert order
RowsOf(rows, k) == SelectSeq(rows, LAMBDA r : r.habit_id = k)

\* C15: filtering by periodicity returns exactly the habits of the requested
\* periodicity, each once: analytics.get_habits_by_periodicity with 'daily' or 'weekly'
\* and HabitTracker.get_habits_by_periodicity with a member of Periodicity.
C15_FilterExact ==
    \A p \in Periodicity :
        LET want == {k \in DOMAIN habits : habits[k].periodicity = p}
            by_tracker == tracker_get_habits_by_periodicity(habits, p)
            by_analytics ==
                get_habits_by_periodicity(get_all_habits(habits), periodicity_value(p))
        IN  /\ IdsOf(by_tracker) = want /\ Len(by_tracker) = Cardinality(want)
            /\ IdsOf(by_analytics) = want /\ Len(by_analytics) = Cardinality(want)

\* C17: remove_habit(id) returns True exactly when id was tracked, and afterwards id is
\* not tracked and the database holds neither the habit row nor a completion row for
\* id; when id was not tracked (and delete_habit when the row does not exist) the call
\* returns False and memory and database are unchanged.
C17_RemoveHabit ==
    [][/\ last'.op = "remove_habit" =>
              LET id == last'.habit_id IN
              /\ last'.returned = (id \in DOMAIN habits)
              /\ id \in DOMAIN habits =>
                     /\ id \notin DOMAIN habits'
                     /\ id \notin DOMAIN db_habits'.rows
                     /\ RowsOf(db_completions', id) = <<>>
              /\ id \notin DOMAIN habits =>
                     UNCHANGED <<habits, db_habits, db_completions>>
       /\ (last'.op = "delete_habit" /\ last'.habit_id \notin DOMAIN db_habits.rows) =>
              /\ last'.returned = FALSE
              /\ UNCHANGED <<habits, db_habits, db_completions>>]_vars

\* C18: deleting one habit leaves every other habit unchanged: its habit row, its
\* identity and its completion rows, and the tracked object.
C18_OthersUntouched ==
    [][last'.op \in {"remove_habit", "delete_habit"} =>
           \A k \in Ids \ {last'.habit_id} :
               /\ k \in DOMAIN db_habits'.rows <=> k \in DOMAIN db_habits.rows
               /\ k \in DOMAIN db_habits.rows => db_habits'.rows[k] = db_habits.rows[k]
               /\ RowsOf(db_completions', k) = RowsOf(db_completions, k)
               /\ load_completions(db_completions', k) = load_completions(db_completions, k)
               /\ k \in DOMAIN habits' <=> k \in DOMAIN habits
               /\ k \in DOMAIN habits => habits'[k] = habits[k]]_vars

\* a habit with completion rows was deleted while another habit had a row and completions
C18_Witness ==
    /\ last.op = "delete_habit"
    /\ last.returned
    /\ last.stored # <<>>
    /\ \E k \in DOMAIN db_habits.rows : RowsOf(db_completions, k) # <<>>

\* C20: each insert_completion adds its timestamp to what load_completions returns
\* for that habit and to nothing else, and load_completions returns the timestamps in
\* ascending chronological order: from the empty table on, load_completions returns
\* exactly the timestamps inserted for the habit, sorted.
C20_RoundTrip ==
    [][last'.op = "insert_completion" =>
           LET id == last'.habit_id
               timestamp == last'.timestamp
           IN  /\ load_completions(db_completions', id)
                      = SortAsc(Append(load_completions(db_completions, id), timestamp))
               /\ \A k \in Ids \ {id} :
                      load_completions(db_completions', k)
                          = load_completions(db_completions, k)]_vars

\* timestamps read back in chronological order, which was not the order of their
\* insertion, while the other habit has a row of its own
C20_Witness ==
    /\ last.op = "load_completions"
    /\ Len(last.loaded) = MaxLen - 1
    /\ last.loaded = SortAsc(last.loaded)
    /\ last.loaded # load_completions_InsertOrder(db_completions, last.habit_id)
    /\ \E k \in Ids \ {last.habit_id} : RowsOf(db_completions, k) # <<>>

\* the log with the completions at positions i and j exchanged
Swapped(cs, i, j) == [cs EXCEPT ![i] = cs[j], ![j] = cs[i]]

\* the rearrangements of a log by one exchange of two positions.  Every permutation is
\* a composition of such exchanges, and every log of the drawn timestamps is an
\* initial state, so a result that no exchange changes is changed by no permutation.
Rearrangements(cs) == {Swapped(cs, i, j) : i, j \in DOMAIN cs}

\* C22: the streak results do not depend on the order of the completion log: every
\* permutation of the log gives the same current and longest streak, from the
\* analytics functions and from the Habit methods.  Every log is drawn as an initial
\* state, so the rearrangements are taken there.
C22_OrderIndependent ==
    \A other \in (IF last.op = "init" THEN Rearrangements(completions) ELSE {}) :
        /\ calculate_current_streak(other, periodicity, now)
               = calculate_current_streak(completions, periodicity, now)
        /\ calculate_longest_streak(other, periodicity)
               = calculate_longest_streak(completions, periodicity)
        /\ get_current_streak(other, periodicity, now)
               = get_current_streak(completions, periodicity, now)
        /\ get_longest_streak(other, periodicity)
               = get_longest_streak(completions, periodicity)

\* a longest streak of 2 was returned for a log stored neither oldest first nor newest first
C22_Witness ==
    /\ last.op = "get_longest_streak"
    /\ last.ret = <<2>>
    /\ completions # SortAsc(completions)
    /\ completions # SortDesc(completions)

\* C23: is_broken() implies is_due(): a habit is never broken while it is not due.
C23_BrokenImpliesDue ==
    is_broken(completions, periodicity, created_date, now)
        => is_due(completions, periodicity, now)

\* a Weekly habit with completions was found broken, and it is due
C23_Witness ==
    /\ last.op = "is_broken"
    /\ last.ret = <<TRUE>>
    /\ periodicity = WEEKLY
    /\ completions # <<>>
    /\ is_due(completions, periodicity, now)

\* C24: the current streak never exceeds the longest streak, for the Habit methods and
\* for the analytics functions.
C24_CurrentAtMostLongest ==
    /\ get_current_streak(completions, periodicity, now)
           <= get_longest_streak(completions, periodicity)
    /\ calculate_current_streak(completions, periodicity, now)
           <= calculate_longest_streak(completions, periodicity)

\* C25: recording a completion never decreases the longest streak.
C25_LongestNeverDecreases ==
    last.op = "mark_completed" =>
        /\ get_longest_streak(completions, periodicity)
               >= get_longest_streak(last.pre, periodicity)
        /\ calculate_longest_streak(completions, periodicity)
               >= calculate_longest_streak(last.pre, periodicity)

\* C27: Habit.get_current_streak() is at least 1 exactly when is_due() is false.
C27_ActiveIffNotDue ==
    get_current_streak(completions, periodicity, now) >= 1
        <=> ~is_due(completions, periodicity, now)

\* C28: Habit.get_current_streak() returns the same value as
\* calculate_current_streak(habit.completions, habit.periodicity).
C28_StreaksAgree ==
    get_current_streak(completions, periodicity, now)
        = calculate_current_streak(completions, periodicity, now)

Broken == is_broken(completions, periodicity, created_date, now)

\* C26: once no completion is recorded any more and time keeps advancing, the habit
\* eventually becomes broken, and it stays broken for as long as no completion is
\* recorded: is_broken never returns from true to false because time passes.
C26_EventuallyBrokenForGood ==
    /\ <>[]Broken
    /\ [][(Broken /\ completions' = completions) => Broken']_vars

\* a Weekly habit with completions has become broken only by the passing of time
C26_Witness ==
    /\ periodicity = WEEKLY
    /\ completions # <<>>
    /\ last.op = "tick"
    /\ Broken
    /\ ~is_broken(completions, periodicity, created_date, now - 1)

\* C29: after any sequence of add_habit, complete_habit and remove_habit calls the ids
\* tracked in memory are the ids stored in the habits table, and the log of each tracked
\* habit holds exactly the timestamps stored for it in the completions table.
C29_MemoryMatchesDatabase ==
    /\ DOMAIN habits = DOMAIN db_habits.rows
    /\ \A k \in DOMAIN habits :
           SortAsc(habits[k].completions) = load_completions(db_completions, k)

\* C21: a DataManager created on a new database file starts with no habits:
\* load_habits() returns the empty list, and after the first insert_habit
\* load_habits() returns exactly that one habit.
C21_NewDatabaseEmpty ==
    /\ [](last.op = "DataManager" => load_habits(db_habits) = <<>>)
    /\ [][(last.op = "DataManager" /\ last'.op = "insert_habit")
            => /\ Len(load_habits(db_habits')) = 1
               /\ load_habits(db_habits')[1].id = last'.habit_id]_vars

\* C30: constructing a HabitTracker over a database that holds habits succeeds and
\* tracks, for every stored habit, a Habit with the stored id, periodicity and
\* created_date whose log is the habit's stored completions.
C30_RestartRoundTrip ==
    (last.op = "HabitTracker" /\ DOMAIN db_habits.rows # {}) =>
        /\ last.raised = ""
        /\ DOMAIN habits = DOMAIN db_habits.rows
        /\ \A k \in DOMAIN habits :
              /\ habits[k].id = <<k>>
              /\ periodicity_value(habits[k].periodicity) = db_habits.rows[k].periodicity
              /\ isoformat(habits[k].created_date) = db_habits.rows[k].created_date
              /\ habits[k].completions = load_completions(db_completions, k)

====
